---------------------------- MODULE Spec2Model ----------------------------
(***************************************************************************)
(* node-social: the request pipeline of the REST feed controllers and the  *)
(* GraphQL resolvers over the Post and User collections.                   *)
(*                                                                         *)
(* Every request runs in a slot of Reqs.  A handler is cut at its awaits:  *)
(* one action is "the store call the handler is waiting for happens now,   *)
(* and the handler runs on to its next await or to its response".  Each    *)
(* request keeps the log of the calls it made to its collaborators (the    *)
(* store, fs.unlink, the socket) and its response.                         *)
(***************************************************************************)
EXTENDS Integers, Sequences, FiniteSets

(***************************************************************************)
(* Bounds of the model.                                                    *)
(***************************************************************************)
NumUsers == 2       \* users signed up
MaxPosts == 2       \* Post ids that can be handed out
NumReqs  == 1       \* requests in flight at once
MaxPage  == 2       \* largest page number asked for
MaxTime  == 3       \* instants a token can expire at or be verified at
MaxStored == 3      \* posts in a store the list reads are tried on
MaxStamp == 2       \* creation instants of those posts

UserIds == 1..NumUsers
PostIds == 1..MaxPosts
Reqs    == 1..NumReqs
Times   == 0..MaxTime
NoId    == 0        \* undefined: req.userId never set, an id that names nothing

(***************************************************************************)
(* Strings of the inputs.  Len is what validator.isEmpty / isLength read.  *)
(***************************************************************************)
Titles   == {"Hi", "Hello"}
Contents == {"", "Lorem"}
Statuses == {"I am new!", "busy"}
FileNames == {"a", "b"}

(***************************************************************************)
(* Paths are sequences of tokens: directory, separator, file name.         *)
(***************************************************************************)
Slash     == "/"
Backslash == "\\"
Platforms == {"posix", "win32"}

\* String.prototype.replace with a string pattern: the first occurrence only.
RECURSIVE Replace(_, _, _)
Replace(s, from, to) ==
  IF s = <<>> THEN <<>>
  ELSE IF Head(s) = from THEN <<to>> \o Tail(s)
       ELSE <<Head(s)>> \o Replace(Tail(s), from, to)

\* req.file.path as multer's diskStorage gives it: path.join('images', uuid).
MulterPath(os, name) ==
  <<"images", IF os = "win32" THEN Backslash ELSE Slash, name>>

\* path.join(__dirname, '..', 'Backend', filePath): on win32 both separators
\* separate and are normalised, on posix a backslash is part of a file name.
PathJoin(os, filePath) ==
  IF os = "win32"
  THEN [i \in 1..Len(filePath) |->
          IF filePath[i] = Slash THEN Backslash ELSE filePath[i]]
  ELSE filePath

\* The file on disk that holds upload `name`.
DiskFile(os, name) == PathJoin(os, MulterPath(os, name))

\* The imageUrl a client holds for upload `name`: file.path.replace('\\', '/').
UrlOf(os, name) == Replace(MulterPath(os, name), Backslash, Slash)

NoPath    == <<>>               \* no image value at all
Undefined == <<"undefined">>    \* the string 'undefined' the client sends


(***************************************************************************)
(* Token Service and Auth Gate.                                            *)
(***************************************************************************)
\* What a request carries as its Authorization header: nothing, a scheme
\* with no token after it (authHeader.split(' ')[1] is undefined), or a
\* token with its payload's userId, its signature and its expiry instant.
NoHeader    == [present |-> FALSE, token |-> FALSE, userId |-> NoId,
                sig |-> "none", exp |-> 0]
BareScheme  == [present |-> TRUE, token |-> FALSE, userId |-> NoId,
                sig |-> "none", exp |-> 0]
BearerHeaders ==
  [present : {TRUE}, token : {TRUE}, userId : UserIds,
   sig : {"good", "bad"}, exp : Times]
Headers == {NoHeader, BareScheme} \cup BearerHeaders

\* jwt.verify(token, 'secretString') at time `now`: the payload, or <<>> when
\* it throws (no token, a signature made with another secret, now >= exp).
JwtVerify(h, now) ==
  IF h.token /\ h.sig = "good" /\ now < h.exp
  THEN <<[userId |-> h.userId]>>
  ELSE <<>>

\* What the gate leaves on the request, how often it called next(), and
\* whether it wrote a response itself.
Gate(isAuth, userId, nextCalls, responded) ==
  [isAuth |-> isAuth, userId |-> userId, nextCalls |-> nextCalls,
   responded |-> responded]

AuthGateTrustsPayload(h, now) ==
  IF ~h.present THEN Gate(FALSE, NoId, 1, FALSE)
  ELSE IF ~h.token THEN Gate(FALSE, NoId, 1, FALSE)
       ELSE Gate(TRUE, h.userId, 1, FALSE)

\* middleware/auth.js.
AuthGate(h, now) ==
  IF ~h.present
  THEN Gate(FALSE, NoId, 1, FALSE)
  ELSE LET decodedToken == JwtVerify(h, now) IN
       IF decodedToken = <<>>
       THEN Gate(FALSE, NoId, 1, FALSE)
       ELSE Gate(TRUE, decodedToken[1].userId, 1, FALSE)

\* The REST routes' is-auth middleware: a protected route answers 401 when
\* the request carries no token that verifies, and calls next() otherwise.
RestIsAuth(h, now) ==
  LET decodedToken == IF h.present THEN JwtVerify(h, now) ELSE <<>> IN
  IF decodedToken = <<>>
  THEN Gate(FALSE, NoId, 0, TRUE)
  ELSE Gate(TRUE, decodedToken[1].userId, 1, FALSE)

\* A request at the gate, before the gate has run and after.
AtGate(h, now) ==
  [hdr |-> h, now |-> now, ran |-> FALSE, out |-> Gate(FALSE, NoId, 0, FALSE)]
Gated(g) == [g EXCEPT !.ran = TRUE, !.out = AuthGate(g.hdr, g.now)]

\* Every outcome of a gate, over all headers and times.
GqlGates  == {AuthGate(h, t) : h \in Headers, t \in Times}
RestGates == {RestIsAuth(h, t) : h \in Headers, t \in Times}
\* A public REST route runs no gate: req.userId stays undefined.
NoGate == Gate(FALSE, NoId, 1, FALSE)

(***************************************************************************)
(* Input validation.                                                       *)
(***************************************************************************)
\* The resolvers' checks of postInput: one message per violated rule.
GqlPostErrors(title, content) ==
     (IF Len(title) = 0 THEN <<"Title should not be empty">> ELSE <<>>)
  \o (IF Len(title) < 5
        THEN <<"Title should have a minimum length of 5">> ELSE <<>>)
  \o (IF Len(content) = 0 THEN <<"Content should not be empty">> ELSE <<>>)
  \o (IF Len(content) < 5
        THEN <<"Content should have a minimum length of 5">> ELSE <<>>)

\* validationResult(req).isEmpty() for the REST routes' title/content rules.
RestErrorsEmpty(title, content) == Len(title) >= 5 /\ Len(content) >= 5

(***************************************************************************)
(* Responses and call-log entries.                                         *)
(***************************************************************************)
\* status and message of the response, the error's data (the field errors),
\* and for the reads the posts returned and the total counted.
NoData == <<>>
FullRes(status, message, data, items, total) ==
  [status |-> status, message |-> message, data |-> data,
   posts |-> items, total |-> total]
Res(status, message) == FullRes(status, message, NoData, <<>>, 0)
ResData(status, message, data) == FullRes(status, message, data, <<>>, 0)
NoRes == Res(0, "")

\* One call of a collaborator: which, on which id, what (the emit's action),
\* on which path (unlink), and whether it went through.
Call(call, id, what, path, ok) ==
  [call |-> call, id |-> id, what |-> what, path |-> path, ok |-> ok]
Db(call, id, ok)   == Call(call, id, "", NoPath, ok)

\* clearImage(filePath): fs.unlink of the joined path, its error only logged.
ClearImage(os, filePath) ==
  Call("fs.unlink", NoId, "", PathJoin(os, filePath), TRUE)

\* io.getIO().emit('posts', {action, post}).
Emit(action, postId) == Call("emit", postId, action, NoPath, TRUE)
\* The same call when io.getIO() or emit throws.
EmitThrows(action, postId) == Call("emit", postId, action, NoPath, FALSE)

\* express-graphql formatError: a thrown error's code, or 500.
GqlError(message) == Res(500, message)
GqlCoded(code, message, data) == ResData(code, message, data)
GqlOk == Res(200, "ok")


(***************************************************************************)
(* State.                                                                  *)
(***************************************************************************)
VARIABLES
  posts,     \* the Post collection: _id -> document, for the ids stored
  users,     \* the User collection: _id -> document
  nextId,    \* the next ObjectId `new Post` hands out
  clock,     \* the time the next insert stamps as createdAt
  platform,  \* the host's path flavour
  gate,      \* the request at the Auth Gate: its header, the time, the result
  req        \* per slot: the request running there, or the last one done

vars == <<posts, users, nextId, clock, platform, gate, req>>
env  == <<platform, gate>>

PostDoc(title, content, imageUrl, creator, createdAt) ==
  [title |-> title, content |-> content, imageUrl |-> imageUrl,
   creator |-> creator, createdAt |-> createdAt]

\* models/user.js: status defaults to 'I am new!', posts to [].
NewUser == [status |-> "I am new!", posts |-> <<>>]

\* A slot with no request yet.
Blank ==
  [op |-> "none", pc |-> "done", isAuth |-> FALSE,
   userId |-> NoId, postId |-> NoId, title |-> "", content |-> "",
   image |-> NoPath, page |-> 0, post |-> <<>>, log |-> <<>>, res |-> NoRes,
   email |-> <<>>]

\* A request as it arrives: the gate's result and the arguments.
Arrived(op, g, postId, title, content, image, page) ==
  [Blank EXCEPT !.op = op, !.isAuth = g.isAuth,
                !.userId = g.userId, !.postId = postId, !.title = title,
                !.content = content, !.image = image, !.page = page]

\* The request goes on to wait for its next store call.
Await(q, pc, calls) == [q EXCEPT !.pc = pc, !.log = @ \o calls]

\* The request has answered; its arguments and locals are gone.
Respond(q, calls, res) ==
  [q EXCEPT !.pc = "done", !.log = @ \o calls, !.res = res,
            !.title = "", !.content = "", !.image = NoPath, !.page = 0,
            !.post = <<>>, !.email = <<>>]

\* The end of a REST mutation's try block: the event is emitted and the
\* response sent, or the emit throws and the catch hands the error to
\* next(err) with status 500.
EmitAndRespond(q, calls, action, res) ==
  {Respond(q, calls \o <<Emit(action, q.postId)>>, res),
   Respond(q, calls \o <<EmitThrows(action, q.postId)>>,
           Res(500, "emit error"))}

Idle(r) == req[r].pc = "done"
At(r, pc) == req[r].pc = pc

Init ==
  /\ posts = <<>>
  /\ users = [u \in UserIds |-> NewUser]
  /\ nextId = 1
  /\ clock = 1
  /\ platform \in Platforms
  /\ gate = AtGate(NoHeader, 0)
  /\ req = [r \in Reqs |-> Blank]

(***************************************************************************)
(* The store's operations (mongoose over the two collections).             *)
(***************************************************************************)
HasPost(id) == id \in DOMAIN posts
HasUser(id) == id \in DOMAIN users

\* Post.findById(id): <<document>> or <<>> for null.
FindPost(id) == IF HasPost(id) THEN <<posts[id]>> ELSE <<>>

\* post.save() of a new document.
InsertPost(id, doc) ==
  [p \in (DOMAIN posts) \cup {id} |-> IF p = id THEN doc ELSE posts[p]]

\* Post.findByIdAndDelete(id).
RemovePost(id) == [p \in (DOMAIN posts) \ {id} |-> posts[p]]

\* post.save() of a loaded document: $set of the paths whose value changed
\* since it was loaded.
SetPost(id, loaded, title, content, imageUrl) ==
  [posts EXCEPT ![id] =
     [@ EXCEPT !.title    = IF title # loaded.title THEN title ELSE @,
               !.content  = IF content # loaded.content THEN content ELSE @,
               !.imageUrl = IF imageUrl # loaded.imageUrl THEN imageUrl ELSE @]]

\* user.posts.push(post); user.save(): $push of the id.
PushPost(uid, id) == [users EXCEPT ![uid].posts = Append(@, id)]

\* user.posts.pull(id); user.save(): $pull of the id.
PullPost(uid, id) ==
  [users EXCEPT ![uid].posts = SelectSeq(@, LAMBDA x : x # id)]

\* user.status = s; user.save().
SetStatus(uid, s) == [users EXCEPT ![uid].status = s]


(***************************************************************************)
(* Steps shared by the handlers.                                           *)
(***************************************************************************)
Step(r, q) == req' = [req EXCEPT ![r] = q]

\* A store call rejects: the REST handlers' catch gives the error status 500
\* and hands it to next(err); a resolver's rejection is formatted with 500.
RestStoreFails(r, call, id) ==
  /\ Step(r, Respond(req[r], <<Db(call, id, FALSE)>>, Res(500, "store error")))
  /\ UNCHANGED <<posts, users, nextId, clock, env>>

GqlStoreFails(r, call, id) ==
  /\ Step(r, Respond(req[r], <<Db(call, id, FALSE)>>, GqlError("store error")))
  /\ UNCHANGED <<posts, users, nextId, clock, env>>

Quiet == UNCHANGED <<posts, users, nextId, clock, env>>

(***************************************************************************)
(* GraphQL resolvers.                                                      *)
(***************************************************************************)
NotAuthenticated == GqlError("Not authenticated!")

\* createPost: up to the await of User.findById.
GqlCreatePost(r) ==
  /\ Idle(r)
  /\ nextId <= MaxPosts
  /\ \E g \in GqlGates :
       IF ~g.isAuth
       THEN Step(r, Respond(Arrived("gql.createPost", g, NoId, "", "", NoPath, 0),
                            <<>>, NotAuthenticated))
       ELSE \E title \in Titles, content \in Contents, n \in FileNames :
              LET q == Arrived("gql.createPost", g, NoId, title, content,
                               UrlOf(platform, n), 0)
                  errors == GqlPostErrors(title, content)
              IN  Step(r, IF Len(errors) > 0
                          THEN Respond(q, <<>>,
                                       GqlCoded(422, "Invalid input.", errors))
                          ELSE Await(q, "gcp.findUser", <<>>))
  /\ Quiet

\* createPost: User.findById answers; new Post(...); post.save() is awaited.
GqlCreatePostFindUser(r) ==
  /\ At(r, "gcp.findUser")
  /\ \/ GqlStoreFails(r, "User.findById", req[r].userId)
     \/ /\ ~HasUser(req[r].userId)
        /\ Step(r, Respond(req[r], <<Db("User.findById", req[r].userId, TRUE)>>,
                           GqlError("Invalid User.")))
        /\ Quiet
     \/ /\ HasUser(req[r].userId)
        /\ nextId <= MaxPosts
        /\ Step(r, Await([req[r] EXCEPT !.postId = nextId], "gcp.savePost",
                         <<Db("User.findById", req[r].userId, TRUE)>>))
        /\ nextId' = nextId + 1
        /\ UNCHANGED <<posts, users, clock, env>>

\* createPost: post.save() answers; user.posts.push; user.save() is awaited.
GqlCreatePostSave(r) ==
  /\ At(r, "gcp.savePost")
  /\ \/ GqlStoreFails(r, "post.save", req[r].postId)
     \/ /\ posts' = InsertPost(req[r].postId,
                      PostDoc(req[r].title, req[r].content, req[r].image,
                              req[r].userId, clock))
        /\ clock' = clock + 1
        /\ Step(r, Await(req[r], "gcp.saveUser",
                         <<Db("post.save", req[r].postId, TRUE)>>))
        /\ UNCHANGED <<users, nextId, env>>

\* createPost: user.save() answers; the post is returned.
GqlCreatePostSaveUser(r) ==
  /\ At(r, "gcp.saveUser")
  /\ \/ GqlStoreFails(r, "user.save", req[r].userId)
     \/ /\ users' = PushPost(req[r].userId, req[r].postId)
        /\ Step(r, Respond(req[r], <<Db("user.save", req[r].userId, TRUE)>>, GqlOk))
        /\ UNCHANGED <<posts, nextId, clock, env>>


\* The posts in an order find().sort({createdAt: -1}) can return them in:
\* newest first, posts of one instant in either order.
RECURSIVE Orders(_)
Orders(ids) ==
  IF ids = {} THEN {<<>>}
  ELSE UNION {{<<p>> \o o : o \in Orders(ids \ {p})} :
                p \in {x \in ids :
                         \A y \in ids : posts[y].createdAt <= posts[x].createdAt}}

SkipLimitFromNextPage(order, n, m) ==
  SubSeq(order, n + m + 1,
         IF n + m + m < Len(order) THEN n + m + m ELSE Len(order))

\* .skip(n).limit(m) of a result.
SkipLimit(order, n, m) ==
  SubSeq(order, n + 1, IF n + m < Len(order) THEN n + m ELSE Len(order))

\* const perPage = 2 (postsPerPage in the controllers).
PerPage == 2

\* getPosts: up to the await of countDocuments.  page = page || 1.
GqlGetPosts(r) ==
  /\ Idle(r)
  /\ \E g \in GqlGates :
       IF ~g.isAuth
       THEN Step(r, Respond(Arrived("gql.getPosts", g, NoId, "", "", NoPath, 0),
                            <<>>, NotAuthenticated))
       ELSE \E page \in 0..MaxPage :
              Step(r, Await(Arrived("gql.getPosts", g, NoId, "", "", NoPath,
                                    IF page = 0 THEN 1 ELSE page),
                            "ggp.count", <<>>))
  /\ Quiet

\* getPosts: countDocuments answers; the sorted find is awaited.
GqlGetPostsCount(r) ==
  /\ At(r, "ggp.count")
  /\ \/ GqlStoreFails(r, "Post.countDocuments", NoId)
     \/ /\ Step(r, Await([req[r] EXCEPT !.res.total = Cardinality(DOMAIN posts)],
                         "ggp.find", <<Db("Post.countDocuments", NoId, TRUE)>>))
        /\ Quiet

\* getPosts: the find answers; posts and totalPosts are returned.
GqlGetPostsFind(r) ==
  /\ At(r, "ggp.find")
  /\ \/ GqlStoreFails(r, "Post.find", NoId)
     \/ /\ \E order \in Orders(DOMAIN posts) :
             Step(r, Respond(req[r], <<Db("Post.find", NoId, TRUE)>>,
                    FullRes(200, "ok", NoData,
                            SkipLimit(order, (req[r].page - 1) * PerPage, PerPage),
                            req[r].res.total)))
        /\ Quiet

\* getPost: up to the await of Post.findById.
GqlGetPost(r) ==
  /\ Idle(r)
  /\ \E g \in GqlGates, id \in PostIds :
       Step(r, LET q == Arrived("gql.getPost", g, id, "", "", NoPath, 0)
               IN  IF ~g.isAuth THEN Respond(q, <<>>, NotAuthenticated)
                   ELSE Await(q, "ggo.find", <<>>))
  /\ Quiet

\* getPost: Post.findById answers.
GqlGetPostFind(r) ==
  /\ At(r, "ggo.find")
  /\ \/ GqlStoreFails(r, "Post.findById", req[r].postId)
     \/ /\ Step(r, LET post == FindPost(req[r].postId)
                       calls == <<Db("Post.findById", req[r].postId, TRUE)>>
                   IN  IF post = <<>>
                       THEN Respond(req[r], calls, GqlError("No post found!"))
                       ELSE Respond(req[r], calls,
                              FullRes(200, "ok", NoData, <<req[r].postId>>, 0)))
        /\ Quiet

\* updatePost: up to the await of Post.findById.
GqlUpdatePost(r) ==
  /\ Idle(r)
  /\ \E g \in GqlGates, id \in PostIds :
       IF ~g.isAuth
       THEN Step(r, Respond(Arrived("gql.updatePost", g, id, "", "", NoPath, 0),
                            <<>>, NotAuthenticated))
       ELSE \E title \in Titles, content \in Contents,
               image \in {Undefined} \cup {UrlOf(platform, n) : n \in FileNames} :
              Step(r, Await(Arrived("gql.updatePost", g, id, title, content,
                                    image, 0),
                            "gup.find", <<>>))
  /\ Quiet

\* updatePost: Post.findById answers; the ownership check, the validation,
\* the assignments; post.save() is awaited.
GqlUpdatePostFind(r) ==
  /\ At(r, "gup.find")
  /\ \/ GqlStoreFails(r, "Post.findById", req[r].postId)
     \/ /\ Step(r,
             LET q == req[r]
                 post == FindPost(q.postId)
                 calls == <<Db("Post.findById", q.postId, TRUE)>>
                 errors == GqlPostErrors(q.title, q.content)
             IN  IF post = <<>>
                 THEN Respond(q, calls, GqlError("No post found!"))
                 ELSE IF post[1].creator # q.userId
                 THEN Respond(q, calls, GqlError("Not authorized!"))
                 ELSE IF Len(errors) > 0
                 THEN Respond(q, calls, GqlCoded(422, "Invalid input.", errors))
                 ELSE Await([q EXCEPT !.post = post,
                                      !.image = IF q.image # Undefined
                                                THEN q.image
                                                ELSE post[1].imageUrl],
                            "gup.save", calls))
        /\ Quiet

\* A save of a loaded document whose _id is no longer stored writes nothing;
\* it rejects (DocumentNotFoundError) or resolves, by the mongoose at hand.
\* updatePost: post.save() answers; the post is returned.
GqlUpdatePostSave(r) ==
  /\ At(r, "gup.save")
  /\ \/ GqlStoreFails(r, "post.save", req[r].postId)
     \/ /\ ~HasPost(req[r].postId)
        /\ Step(r, Respond(req[r], <<Db("post.save", req[r].postId, TRUE)>>, GqlOk))
        /\ Quiet
     \/ /\ HasPost(req[r].postId)
        /\ posts' = SetPost(req[r].postId, req[r].post[1], req[r].title,
                            req[r].content, req[r].image)
        /\ Step(r, Respond(req[r], <<Db("post.save", req[r].postId, TRUE)>>, GqlOk))
        /\ UNCHANGED <<users, nextId, clock, env>>

\* deletePost: up to the await of Post.findById.
GqlDeletePost(r) ==
  /\ Idle(r)
  /\ \E g \in GqlGates, id \in PostIds :
       Step(r, LET q == Arrived("gql.deletePost", g, id, "", "", NoPath, 0)
               IN  IF ~g.isAuth THEN Respond(q, <<>>, NotAuthenticated)
                   ELSE Await(q, "gdp.find", <<>>))
  /\ Quiet

GqlDeletePostFindByAnyone(r) ==
  /\ At(r, "gdp.find")
  /\ \/ GqlStoreFails(r, "Post.findById", req[r].postId)
     \/ /\ Step(r,
             LET q == req[r]
                 post == FindPost(q.postId)
                 calls == <<Db("Post.findById", q.postId, TRUE)>>
             IN  IF post = <<>>
                 THEN Respond(q, calls, GqlError("No post found!"))
                 ELSE Await(q, "gdp.delete",
                        calls \o <<ClearImage(platform,
                           Replace(post[1].imageUrl, Slash, Backslash))>>))
        /\ Quiet

\* deletePost: Post.findById answers; the ownership check; clearImage;
\* Post.findByIdAndDelete is awaited.
GqlDeletePostFind(r) ==
  /\ At(r, "gdp.find")
  /\ \/ GqlStoreFails(r, "Post.findById", req[r].postId)
     \/ /\ Step(r,
             LET q == req[r]
                 post == FindPost(q.postId)
                 calls == <<Db("Post.findById", q.postId, TRUE)>>
             IN  IF post = <<>>
                 THEN Respond(q, calls, GqlError("No post found!"))
                 ELSE IF post[1].creator # q.userId
                 THEN Respond(q, calls, GqlError("Not authorized!"))
                 ELSE Await(q, "gdp.delete",
                        calls \o <<ClearImage(platform,
                           Replace(post[1].imageUrl, Slash, Backslash))>>))
        /\ Quiet

\* deletePost: findByIdAndDelete answers; User.findById is awaited.
GqlDeletePostDelete(r) ==
  /\ At(r, "gdp.delete")
  /\ \/ GqlStoreFails(r, "Post.findByIdAndDelete", req[r].postId)
     \/ /\ posts' = RemovePost(req[r].postId)
        /\ Step(r, Await(req[r], "gdp.findUser",
                         <<Db("Post.findByIdAndDelete", req[r].postId, TRUE)>>))
        /\ UNCHANGED <<users, nextId, clock, env>>

\* deletePost: User.findById answers; user.posts.pull; user.save() is awaited.
GqlDeletePostFindUser(r) ==
  /\ At(r, "gdp.findUser")
  /\ \/ GqlStoreFails(r, "User.findById", req[r].userId)
     \/ /\ Step(r, IF HasUser(req[r].userId)
                   THEN Await(req[r], "gdp.saveUser",
                              <<Db("User.findById", req[r].userId, TRUE)>>)
                   ELSE Respond(req[r], <<Db("User.findById", req[r].userId, TRUE)>>,
                                GqlError("Cannot read properties of null")))
        /\ Quiet

\* deletePost: user.save() answers; true is returned.
GqlDeletePostSaveUser(r) ==
  /\ At(r, "gdp.saveUser")
  /\ \/ GqlStoreFails(r, "user.save", req[r].userId)
     \/ /\ users' = PullPost(req[r].userId, req[r].postId)
        /\ Step(r, Respond(req[r], <<Db("user.save", req[r].userId, TRUE)>>, GqlOk))
        /\ UNCHANGED <<posts, nextId, clock, env>>

\* user: up to the await of User.findById.
GqlUser(r) ==
  /\ Idle(r)
  /\ \E g \in GqlGates :
       Step(r, LET q == Arrived("gql.user", g, NoId, "", "", NoPath, 0)
               IN  IF ~g.isAuth THEN Respond(q, <<>>, NotAuthenticated)
                   ELSE Await(q, "gus.find", <<>>))
  /\ Quiet

\* user: User.findById answers.
GqlUserFind(r) ==
  /\ At(r, "gus.find")
  /\ \/ GqlStoreFails(r, "User.findById", req[r].userId)
     \/ /\ Step(r, Respond(req[r], <<Db("User.findById", req[r].userId, TRUE)>>,
                      IF HasUser(req[r].userId) THEN GqlOk
                      ELSE GqlError("No user found!")))
        /\ Quiet

GqlUpdateStatusUnchecked(r) ==
  /\ Idle(r)
  /\ \E g \in GqlGates, status \in Statuses :
       Step(r, Await(Arrived("gql.updateStatus", g, NoId, "", status, NoPath, 0),
                     "gst.find", <<>>))
  /\ Quiet

\* updateStatus: up to the await of User.findById.
GqlUpdateStatus(r) ==
  /\ Idle(r)
  /\ \E g \in GqlGates :
       IF ~g.isAuth
       THEN Step(r, Respond(Arrived("gql.updateStatus", g, NoId, "", "", NoPath, 0),
                            <<>>, NotAuthenticated))
       ELSE \E status \in Statuses :
              Step(r, Await(Arrived("gql.updateStatus", g, NoId, "", status,
                                    NoPath, 0),
                            "gst.find", <<>>))
  /\ Quiet

\* updateStatus: User.findById answers; user.save() is awaited.
GqlUpdateStatusFind(r) ==
  /\ At(r, "gst.find")
  /\ \/ GqlStoreFails(r, "User.findById", req[r].userId)
     \/ /\ Step(r, IF HasUser(req[r].userId)
                   THEN Await(req[r], "gst.save",
                              <<Db("User.findById", req[r].userId, TRUE)>>)
                   ELSE Respond(req[r], <<Db("User.findById", req[r].userId, TRUE)>>,
                                GqlError("No user found!")))
        /\ Quiet

\* updateStatus: user.save() answers.
GqlUpdateStatusSave(r) ==
  /\ At(r, "gst.save")
  /\ \/ GqlStoreFails(r, "user.save", req[r].userId)
     \/ /\ users' = SetStatus(req[r].userId, req[r].content)
        /\ Step(r, Respond(req[r], <<Db("user.save", req[r].userId, TRUE)>>, GqlOk))
        /\ UNCHANGED <<posts, nextId, clock, env>>

GqlPostNext(r) ==
  \/ GqlCreatePost(r)
  \/ GqlCreatePostFindUser(r)
  \/ GqlCreatePostSave(r)
  \/ GqlCreatePostSaveUser(r)
  \/ GqlGetPosts(r)
  \/ GqlGetPostsCount(r)
  \/ GqlGetPostsFind(r)
  \/ GqlGetPost(r)
  \/ GqlGetPostFind(r)
  \/ GqlUpdatePost(r)
  \/ GqlUpdatePostFind(r)
  \/ GqlUpdatePostSave(r)
  \/ GqlDeletePost(r)
  \/ GqlDeletePostFind(r)
  \/ GqlDeletePostDelete(r)
  \/ GqlDeletePostFindUser(r)
  \/ GqlDeletePostSaveUser(r)

GqlUserNext(r) ==
  \/ GqlUser(r)
  \/ GqlUserFind(r)
  \/ GqlUpdateStatus(r)
  \/ GqlUpdateStatusFind(r)
  \/ GqlUpdateStatusSave(r)

(***************************************************************************)
(* REST feed controller.                                                   *)
(***************************************************************************)
Unauthenticated == Res(401, "Not authenticated.")

\* getPosts: up to the await of countDocuments.  currentPage = page || 1,
\* where a page given in the query is a non-empty string, and so kept.
RestGetPosts(r) ==
  /\ Idle(r)
  /\ \E given \in BOOLEAN, page \in 0..MaxPage :
       Step(r, Await(Arrived("rest.getPosts", NoGate, NoId, "", "", NoPath,
                             IF given THEN page ELSE 1),
                     "rgp.count", <<>>))
  /\ Quiet

\* getPosts: countDocuments answers; the sorted find is awaited.
RestGetPostsCount(r) ==
  /\ At(r, "rgp.count")
  /\ \/ RestStoreFails(r, "Post.countDocuments", NoId)
     \/ /\ Step(r, Await([req[r] EXCEPT !.res.total = Cardinality(DOMAIN posts)],
                         "rgp.find", <<Db("Post.countDocuments", NoId, TRUE)>>))
        /\ Quiet

\* getPosts: the find answers (it rejects a negative skip); posts and
\* totalItems are returned.
RestGetPostsFind(r) ==
  /\ At(r, "rgp.find")
  /\ \/ RestStoreFails(r, "Post.find", NoId)
     \/ /\ (req[r].page - 1) * PerPage >= 0
        /\ \E order \in Orders(DOMAIN posts) :
             Step(r, Respond(req[r], <<Db("Post.find", NoId, TRUE)>>,
                    FullRes(200, "Fetched posts successfully!", NoData,
                            SkipLimit(order, (req[r].page - 1) * PerPage, PerPage),
                            req[r].res.total)))
        /\ Quiet

\* createPost: the validation result, the file check, new Post(...); up to
\* the await of post.save().
RestCreatePost(r) ==
  /\ Idle(r)
  /\ nextId <= MaxPosts
  /\ \E g \in RestGates :
       IF ~g.isAuth
       THEN /\ Step(r, Respond(Arrived("rest.createPost", g, NoId, "", "", NoPath, 0),
                               <<>>, Unauthenticated))
            /\ UNCHANGED nextId
       ELSE \E title \in Titles, content \in Contents,
               file \in {NoPath} \cup {MulterPath(platform, n) : n \in FileNames} :
              LET q == Arrived("rest.createPost", g, NoId, title, content,
                               Replace(file, Backslash, Slash), 0)
              IN  IF ~RestErrorsEmpty(title, content)
                  THEN /\ Step(r, Respond(q, <<>>,
                            Res(422, "Validation failed, entered data is incorrect.")))
                       /\ UNCHANGED nextId
                  ELSE IF file = NoPath
                  THEN /\ Step(r, Respond(q, <<>>, Res(422, "No image provided.")))
                       /\ UNCHANGED nextId
                  ELSE /\ Step(r, Await([q EXCEPT !.postId = nextId],
                                        "rcp.savePost", <<>>))
                       /\ nextId' = nextId + 1
  /\ UNCHANGED <<posts, users, clock, env>>

\* createPost: post.save() answers; User.findById is awaited.
RestCreatePostSave(r) ==
  /\ At(r, "rcp.savePost")
  /\ \/ RestStoreFails(r, "post.save", req[r].postId)
     \/ /\ posts' = InsertPost(req[r].postId,
                      PostDoc(req[r].title, req[r].content, req[r].image,
                              req[r].userId, clock))
        /\ clock' = clock + 1
        /\ Step(r, Await(req[r], "rcp.findUser",
                         <<Db("post.save", req[r].postId, TRUE)>>))
        /\ UNCHANGED <<users, nextId, env>>

\* createPost: User.findById answers; user.posts.push (a TypeError on null,
\* caught as a 500); user.save() is awaited.
RestCreatePostFindUser(r) ==
  /\ At(r, "rcp.findUser")
  /\ \/ RestStoreFails(r, "User.findById", req[r].userId)
     \/ /\ Step(r, IF HasUser(req[r].userId)
                   THEN Await(req[r], "rcp.saveUser",
                              <<Db("User.findById", req[r].userId, TRUE)>>)
                   ELSE Respond(req[r], <<Db("User.findById", req[r].userId, TRUE)>>,
                                Res(500, "Cannot read properties of null")))
        /\ Quiet

\* createPost: user.save() answers; the event is emitted; 201.
RestCreatePostSaveUser(r) ==
  /\ At(r, "rcp.saveUser")
  /\ \/ RestStoreFails(r, "user.save", req[r].userId)
     \/ /\ users' = PushPost(req[r].userId, req[r].postId)
        /\ \E q \in EmitAndRespond(req[r],
                     <<Db("user.save", req[r].userId, TRUE)>>, "create",
                     Res(201, "Post created successfully!")) : Step(r, q)
        /\ UNCHANGED <<posts, nextId, clock, env>>

\* getPost: up to the await of Post.findById.
RestGetPost(r) ==
  /\ Idle(r)
  /\ \E id \in PostIds :
       Step(r, Await(Arrived("rest.getPost", NoGate, id, "", "", NoPath, 0),
                     "rgo.find", <<>>))
  /\ Quiet

\* getPost: Post.findById answers.
RestGetPostFind(r) ==
  /\ At(r, "rgo.find")
  /\ \/ RestStoreFails(r, "Post.findById", req[r].postId)
     \/ /\ Step(r, LET calls == <<Db("Post.findById", req[r].postId, TRUE)>>
                   IN  IF FindPost(req[r].postId) = <<>>
                       THEN Respond(req[r], calls, Res(404, "Could not find post."))
                       ELSE Respond(req[r], calls,
                              FullRes(200, "Post fetched successfully!", NoData,
                                      <<req[r].postId>>, 0)))
        /\ Quiet

\* updatePost: the validation result, the image value; up to the await of
\* Post.findById.
RestUpdatePost(r) ==
  /\ Idle(r)
  /\ \E g \in RestGates, id \in PostIds :
       IF ~g.isAuth
       THEN Step(r, Respond(Arrived("rest.updatePost", g, id, "", "", NoPath, 0),
                            <<>>, Unauthenticated))
       ELSE \E title \in Titles, content \in Contents,
               image \in {NoPath} \cup {UrlOf(platform, n) : n \in FileNames},
               file \in {NoPath} \cup {MulterPath(platform, n) : n \in FileNames} :
              LET imageUrl == IF file # NoPath
                              THEN Replace(file, Backslash, Slash)
                              ELSE image
                  q == Arrived("rest.updatePost", g, id, title, content, imageUrl, 0)
              IN  Step(r,
                    IF ~RestErrorsEmpty(title, content)
                    THEN Respond(q, <<>>,
                           Res(422, "Validation failed, entered data is incorrect."))
                    ELSE IF imageUrl = NoPath
                    THEN Respond(q, <<>>, Res(422, "No file picked!"))
                    ELSE Await(q, "rup.find", <<>>))
  /\ Quiet

\* updatePost: Post.findById answers; 404, the ownership check, clearImage of
\* a replaced image, the assignments; post.save() is awaited.
RestUpdatePostFind(r) ==
  /\ At(r, "rup.find")
  /\ \/ RestStoreFails(r, "Post.findById", req[r].postId)
     \/ /\ Step(r,
             LET q == req[r]
                 post == FindPost(q.postId)
                 calls == <<Db("Post.findById", q.postId, TRUE)>>
             IN  IF post = <<>>
                 THEN Respond(q, calls, Res(404, "Could not find post."))
                 ELSE IF post[1].creator # q.userId
                 THEN Respond(q, calls, Res(403, "Not Authorized!"))
                 ELSE Await([q EXCEPT !.post = post], "rup.save",
                        calls \o (IF q.image # post[1].imageUrl
                                  THEN <<ClearImage(platform, post[1].imageUrl)>>
                                  ELSE <<>>)))
        /\ Quiet

RestUpdatePostSaveEmitsAnyway(r) ==
  /\ At(r, "rup.save")
  /\ \/ /\ Step(r, Respond(req[r],
                     <<Db("post.save", req[r].postId, FALSE),
                       Emit("update", req[r].postId)>>,
                     Res(500, "store error")))
        /\ Quiet
     \/ /\ HasPost(req[r].postId)
        /\ posts' = SetPost(req[r].postId, req[r].post[1], req[r].title,
                            req[r].content, req[r].image)
        /\ Step(r, Respond(req[r],
                     <<Db("post.save", req[r].postId, TRUE),
                       Emit("update", req[r].postId)>>,
                     Res(200, "Post updated successfully!")))
        /\ UNCHANGED <<users, nextId, clock, env>>

\* updatePost: post.save() answers; the event is emitted; 200.
RestUpdatePostSave(r) ==
  /\ At(r, "rup.save")
  /\ \/ RestStoreFails(r, "post.save", req[r].postId)
     \/ /\ ~HasPost(req[r].postId)
        /\ \E q \in EmitAndRespond(req[r],
                     <<Db("post.save", req[r].postId, TRUE)>>, "update",
                     Res(200, "Post updated successfully!")) : Step(r, q)
        /\ Quiet
     \/ /\ HasPost(req[r].postId)
        /\ posts' = SetPost(req[r].postId, req[r].post[1], req[r].title,
                            req[r].content, req[r].image)
        /\ \E q \in EmitAndRespond(req[r],
                     <<Db("post.save", req[r].postId, TRUE)>>, "update",
                     Res(200, "Post updated successfully!")) : Step(r, q)
        /\ UNCHANGED <<users, nextId, clock, env>>

\* deletePost of either controller: up to the await of Post.findById.
RestDeleteArrives(r, op, pc) ==
  /\ Idle(r)
  /\ \E g \in RestGates, id \in PostIds :
       Step(r, LET q == Arrived(op, g, id, "", "", NoPath, 0)
               IN  IF ~g.isAuth THEN Respond(q, <<>>, Unauthenticated)
                   ELSE Await(q, pc, <<>>))
  /\ Quiet

RestDeletePost(r) == RestDeleteArrives(r, "rest.deletePost", "rdp.find")

\* deletePost: Post.findById answers; 404, the ownership check, clearImage;
\* Post.findByIdAndDelete is awaited.
RestDeletePostFind(r) ==
  /\ At(r, "rdp.find")
  /\ \/ RestStoreFails(r, "Post.findById", req[r].postId)
     \/ /\ Step(r,
             LET q == req[r]
                 post == FindPost(q.postId)
                 calls == <<Db("Post.findById", q.postId, TRUE)>>
             IN  IF post = <<>>
                 THEN Respond(q, calls, Res(404, "Could not find post."))
                 ELSE IF post[1].creator # q.userId
                 THEN Respond(q, calls, Res(403, "Not Authorized!"))
                 ELSE Await(q, "rdp.delete",
                        calls \o <<ClearImage(platform, post[1].imageUrl)>>))
        /\ Quiet

\* The second feed controller's deletePost: clearImage(post.imageUrl) comes
\* before both checks, so a null post is a TypeError, caught as a 500.
RestDeletePost2(r) == RestDeleteArrives(r, "rest2.deletePost", "rdq.find")

RestDeletePost2Find(r) ==
  /\ At(r, "rdq.find")
  /\ \/ RestStoreFails(r, "Post.findById", req[r].postId)
     \/ /\ Step(r,
             LET q == req[r]
                 post == FindPost(q.postId)
                 calls == <<Db("Post.findById", q.postId, TRUE)>>
             IN  IF post = <<>>
                 THEN Respond(q, calls, Res(500, "Cannot read properties of null"))
                 ELSE IF post[1].creator # q.userId
                 THEN Respond(q, calls \o <<ClearImage(platform, post[1].imageUrl)>>,
                              Res(403, "Not Authorized!"))
                 ELSE Await(q, "rdp.delete",
                        calls \o <<ClearImage(platform, post[1].imageUrl)>>))
        /\ Quiet

RestDeletePostDeleteSwallowsError(r) ==
  /\ At(r, "rdp.delete")
  /\ \/ /\ Step(r, Await(req[r], "rdp.findUser",
                         <<Db("Post.findByIdAndDelete", req[r].postId, FALSE)>>))
        /\ Quiet
     \/ /\ posts' = RemovePost(req[r].postId)
        /\ Step(r, Await(req[r], "rdp.findUser",
                         <<Db("Post.findByIdAndDelete", req[r].postId, TRUE)>>))
        /\ UNCHANGED <<users, nextId, clock, env>>

\* deletePost: findByIdAndDelete answers; User.findById is awaited.
RestDeletePostDelete(r) ==
  /\ At(r, "rdp.delete")
  /\ \/ RestStoreFails(r, "Post.findByIdAndDelete", req[r].postId)
     \/ /\ posts' = RemovePost(req[r].postId)
        /\ Step(r, Await(req[r], "rdp.findUser",
                         <<Db("Post.findByIdAndDelete", req[r].postId, TRUE)>>))
        /\ UNCHANGED <<users, nextId, clock, env>>

\* deletePost: User.findById answers; user.posts.pull; user.save() is awaited.
RestDeletePostFindUser(r) ==
  /\ At(r, "rdp.findUser")
  /\ \/ RestStoreFails(r, "User.findById", req[r].userId)
     \/ /\ Step(r, IF HasUser(req[r].userId)
                   THEN Await(req[r], "rdp.saveUser",
                              <<Db("User.findById", req[r].userId, TRUE)>>)
                   ELSE Respond(req[r], <<Db("User.findById", req[r].userId, TRUE)>>,
                                Res(500, "Cannot read properties of null")))
        /\ Quiet

\* deletePost: user.save() answers; the first controller emits the event,
\* the second does not; 200.
RestDeletePostSaveUser(r) ==
  /\ At(r, "rdp.saveUser")
  /\ \/ RestStoreFails(r, "user.save", req[r].userId)
     \/ /\ users' = PullPost(req[r].userId, req[r].postId)
        /\ \E q \in (IF req[r].op = "rest.deletePost"
                      THEN EmitAndRespond(req[r],
                             <<Db("user.save", req[r].userId, TRUE)>>, "delete",
                             Res(200, "Post deleted successfully!"))
                      ELSE {Respond(req[r],
                              <<Db("user.save", req[r].userId, TRUE)>>,
                              Res(200, "Post deleted successfully!"))}) :
             Step(r, q)
        /\ UNCHANGED <<posts, nextId, clock, env>>

RestNext(r) ==
  \/ RestGetPosts(r)
  \/ RestGetPostsCount(r)
  \/ RestGetPostsFind(r)
  \/ RestCreatePost(r)
  \/ RestCreatePostSave(r)
  \/ RestCreatePostFindUser(r)
  \/ RestCreatePostSaveUser(r)
  \/ RestGetPost(r)
  \/ RestGetPostFind(r)
  \/ RestUpdatePost(r)
  \/ RestUpdatePostFind(r)
  \/ RestUpdatePostSave(r)
  \/ RestDeletePost(r)
  \/ RestDeletePostFind(r)
  \/ RestDeletePost2(r)
  \/ RestDeletePost2Find(r)
  \/ RestDeletePostDelete(r)
  \/ RestDeletePostFindUser(r)
  \/ RestDeletePostSaveUser(r)

\* The post pipeline on both surfaces.
(***************************************************************************)
(* The image upload endpoint of the GraphQL application.                   *)
(***************************************************************************)
\* PUT /post-image: no await; the uploaded file's path is returned, and the
\* file named by the body's oldPath is cleared.  A throw in the route goes
\* to express's default handler (the error middleware is registered before
\* the route): 500.
PutPostImage(r) ==
  /\ Idle(r)
  /\ \E g \in GqlGates :
       LET q == Arrived("put.postImage", g, NoId, "", "", NoPath, 0) IN
       IF ~g.isAuth
       THEN Step(r, Respond(q, <<>>, Res(500, "Not authenticated!")))
       ELSE \E file \in {NoPath} \cup {MulterPath(platform, n) : n \in FileNames},
               oldPath \in {NoPath} \cup {UrlOf(platform, n) : n \in FileNames} :
              IF file = NoPath
              THEN Step(r, Respond(q, <<>>, Res(200, "No file provided!")))
              ELSE Step(r, Respond(q,
                     IF oldPath # NoPath
                     THEN <<ClearImage(platform,
                                       Replace(oldPath, Slash, Backslash))>>
                     ELSE <<>>,
                     ResData(201, "File stored.",
                             Replace(file, Backslash, Slash))))
  /\ Quiet

Next == \E r \in Reqs : GqlPostNext(r) \/ RestNext(r) \/ PutPostImage(r)

Spec == Init /\ [][Next]_vars

\* The whole GraphQL surface.
GqlNext == \E r \in Reqs : GqlPostNext(r) \/ GqlUserNext(r)

SpecGql == Init /\ [][GqlNext]_vars

(***************************************************************************)
(* The Auth Gate on its own: any header, at any time.                      *)
(***************************************************************************)
GateInit ==
  /\ posts = <<>>
  /\ users = [u \in UserIds |-> NewUser]
  /\ nextId = 1
  /\ clock = 1
  /\ platform \in Platforms
  /\ gate \in {AtGate(h, t) : h \in Headers, t \in Times}
  /\ req = [r \in Reqs |-> Blank]

\* app.use(auth): the middleware runs on the request.
RunAuthGate ==
  /\ ~gate.ran
  /\ gate' = Gated(gate)
  /\ UNCHANGED <<posts, users, nextId, clock, platform, req>>

\* The next request comes in.
NextRequest ==
  /\ gate.ran
  /\ \E h \in Headers, t \in Times : gate' = AtGate(h, t)
  /\ UNCHANGED <<posts, users, nextId, clock, platform, req>>

GateNext == RunAuthGate \/ NextRequest

SpecGate == GateInit /\ [][GateNext]_vars

(***************************************************************************)
(* The list reads on their own: any store of up to MaxStored posts, posts  *)
(* of one creation instant included.                                       *)
(***************************************************************************)
PageStores ==
  UNION {[ids -> {PostDoc("Hello", "Lorem", UrlOf("posix", "a"), 1, t) :
                    t \in 1..MaxStamp}] :
           ids \in SUBSET (1..MaxStored)}

RECURSIVE SeqOf(_)
SeqOf(ids) ==
  IF ids = {} THEN <<>>
  ELSE LET m == CHOOSE x \in ids : \A y \in ids : x <= y
       IN  <<m>> \o SeqOf(ids \ {m})

PageInit ==
  /\ posts \in PageStores
  /\ users = [u \in UserIds |->
                IF u = 1 THEN [NewUser EXCEPT !.posts = SeqOf(DOMAIN posts)]
                ELSE NewUser]
  /\ nextId = MaxStored + 1
  /\ clock = MaxStamp + 1
  /\ platform = "posix"
  /\ gate = AtGate(NoHeader, 0)
  /\ req = [r \in Reqs |-> Blank]

PageNext ==
  \E r \in Reqs :
    \/ RestGetPosts(r)
    \/ RestGetPostsCount(r)
    \/ RestGetPostsFind(r)
    \/ GqlGetPosts(r)
    \/ GqlGetPostsCount(r)
    \/ GqlGetPostsFind(r)

SpecPage == PageInit /\ [][PageNext]_vars

(***************************************************************************)
(* Signup: createUser requests running side by side on an empty Users      *)
(* collection.                                                             *)
(***************************************************************************)
NumSignups  == 2       \* createUser requests in flight at once
MaxAccounts == 2       \* Users that can be stored
SignupReqs  == 1..NumSignups

\* An e-mail address as local part, "@", domain; one input with no "@".
Emails    == {<<"a", "@", "x.io">>, <<"b", "@", "x.io">>, <<"nobody">>}
Passwords == {"", "short", "secret"}

\* validator.isEmail.
IsEmail(e) == Len(e) = 3 /\ e[2] = "@" /\ e[1] # "" /\ e[3] # ""

\* The resolver's checks of userInput.
UserInputErrors(email, password) ==
     (IF ~IsEmail(email) THEN <<"E-Mail is invalid.">> ELSE <<>>)
  \o (IF Len(password) = 0 \/ Len(password) < 6
        THEN <<"Password too short.">> ELSE <<>>)

\* new User({email, name, password}): status and posts by their defaults.
Account(email) ==
  [email |-> email, status |-> NewUser.status, posts |-> NewUser.posts]

\* User.findOne({email}): <<document>> or <<>> for null.  The schema puts no
\* unique index on email, so several documents can match; one is returned.
FindOneByEmail(email) ==
  IF \E u \in DOMAIN users : users[u].email = email
  THEN <<users[CHOOSE u \in DOMAIN users : users[u].email = email]>>
  ELSE <<>>

\* user.save() of a new document: email is only required, never compared.
InsertUser(doc) ==
  LET id == Cardinality(DOMAIN users) + 1
  IN  [u \in (DOMAIN users) \cup {id} |-> IF u = id THEN doc ELSE users[u]]

\* Signups that have not answered yet.
Signing == {r \in DOMAIN req : req[r].pc # "done"}

\* createUser: the validation; up to the await of User.findOne.
GqlCreateUser(r) ==
  /\ Idle(r)
  /\ Cardinality(DOMAIN users) + Cardinality(Signing) < MaxAccounts
  /\ \E email \in Emails, password \in Passwords :
       LET q == [Arrived("gql.createUser", NoGate, NoId, "", "", NoPath, 0)
                   EXCEPT !.email = email]
           errors == UserInputErrors(email, password)
       IN  Step(r, IF Len(errors) > 0
                   THEN Respond(q, <<>>, GqlCoded(422, "Invalid input.", errors))
                   ELSE Await(q, "gcu.findOne", <<>>))
  /\ Quiet

\* createUser: User.findOne answers; bcrypt.hash is awaited.
GqlCreateUserFindOne(r) ==
  /\ At(r, "gcu.findOne")
  /\ \/ GqlStoreFails(r, "User.findOne", NoId)
     \/ /\ Step(r, IF FindOneByEmail(req[r].email) # <<>>
                   THEN Respond(req[r], <<Db("User.findOne", NoId, TRUE)>>,
                                GqlCoded(401, "User exists already.", NoData))
                   ELSE Await(req[r], "gcu.hash",
                              <<Db("User.findOne", NoId, TRUE)>>))
        /\ Quiet

\* createUser: the hash is there; new User(...); user.save() is awaited.
GqlCreateUserHash(r) ==
  /\ At(r, "gcu.hash")
  /\ Step(r, Await(req[r], "gcu.save", <<>>))
  /\ Quiet

\* createUser: user.save() answers; the created user is returned.
GqlCreateUserSave(r) ==
  /\ At(r, "gcu.save")
  /\ \/ GqlStoreFails(r, "user.save", NoId)
     \/ /\ users' = InsertUser(Account(req[r].email))
        /\ Step(r, [Respond(req[r], <<Db("user.save",
                                         Cardinality(DOMAIN users) + 1, TRUE)>>,
                            GqlOk) EXCEPT !.userId = Cardinality(DOMAIN users) + 1])
        /\ UNCHANGED <<posts, nextId, clock, env>>

SignupInit ==
  /\ posts = <<>>
  /\ users = <<>>
  /\ nextId = 1
  /\ clock = 1
  /\ platform \in Platforms
  /\ gate = AtGate(NoHeader, 0)
  /\ req = [r \in SignupReqs |-> Blank]

SignupNext ==
  \E r \in SignupReqs :
    \/ GqlCreateUser(r)
    \/ GqlCreateUserFindOne(r)
    \/ GqlCreateUserHash(r)
    \/ GqlCreateUserSave(r)

SpecSignup == SignupInit /\ [][SignupNext]_vars

(***************************************************************************)
(* The create operations over any Users collection: a token outlives its   *)
(* User when the User document is removed from the store.                  *)
(***************************************************************************)
CreateInit ==
  /\ posts = <<>>
  /\ users \in {[u \in S |-> NewUser] : S \in SUBSET UserIds}
  /\ nextId = 1
  /\ clock = 1
  /\ platform \in Platforms
  /\ gate = AtGate(NoHeader, 0)
  /\ req = [r \in Reqs |-> Blank]

CreateNext ==
  \E r \in Reqs :
    \/ RestCreatePost(r)
    \/ RestCreatePostSave(r)
    \/ RestCreatePostFindUser(r)
    \/ RestCreatePostSaveUser(r)
    \/ GqlCreatePost(r)
    \/ GqlCreatePostFindUser(r)
    \/ GqlCreatePostSave(r)
    \/ GqlCreatePostSaveUser(r)

SpecCreate == CreateInit /\ [][CreateNext]_vars

(***************************************************************************)
(* Creates and deletes side by side: each slot serves one request.         *)
(***************************************************************************)
NumRacers == 2       \* create and delete requests in flight at once
Racers    == 1..NumRacers

RaceInit ==
  /\ posts = <<>>
  /\ users = [u \in UserIds |-> NewUser]
  /\ nextId = 1
  /\ clock = 1
  /\ platform \in Platforms
  /\ gate = AtGate(NoHeader, 0)
  /\ req = [r \in Racers |-> Blank]

RaceNext ==
  \E r \in Racers :
    \/ /\ req[r].op = "none"
       /\ \/ RestCreatePost(r)
          \/ RestDeletePost(r)
          \/ GqlCreatePost(r)
          \/ GqlDeletePost(r)
    \/ RestCreatePostSave(r)
    \/ RestCreatePostFindUser(r)
    \/ RestCreatePostSaveUser(r)
    \/ RestDeletePostFind(r)
    \/ RestDeletePostDelete(r)
    \/ RestDeletePostFindUser(r)
    \/ RestDeletePostSaveUser(r)
    \/ GqlCreatePostFindUser(r)
    \/ GqlCreatePostSave(r)
    \/ GqlCreatePostSaveUser(r)
    \/ GqlDeletePostFind(r)
    \/ GqlDeletePostDelete(r)
    \/ GqlDeletePostFindUser(r)
    \/ GqlDeletePostSaveUser(r)

SpecRace == RaceInit /\ [][RaceNext]_vars

(***************************************************************************)
(* Properties.                                                             *)
(***************************************************************************)
Done(r)     == req[r].pc = "done" /\ req[r].op # "none"
Acts(r)     == req'[r] # req[r]
Answers(r)  == Acts(r) /\ req'[r].pc = "done"
Arrives(r)  == Acts(r) /\ req[r].pc = "done"
\* No store call of the request was rejected.
StoreOk(q)  == \A i \in 1..Len(q.log) : q.log[i].ok
Called(q, call) == \E i \in 1..Len(q.log) : q.log[i].call = call

RestMutations == {"rest.createPost", "rest.updatePost", "rest.deletePost",
                  "rest2.deletePost"}
GqlMutations  == {"gql.createPost", "gql.updatePost", "gql.deletePost"}
UpdateOrDelete == {"rest.updatePost", "rest.deletePost", "rest2.deletePost",
                   "gql.updatePost", "gql.deletePost"}
FindSteps == {"rup.find", "rdp.find", "rdq.find", "gup.find", "gdp.find"}

IsForbidden(q) ==
  \/ q.op \in RestMutations /\ q.res.status = 403
  \/ q.op \in GqlMutations /\ q.res.message = "Not authorized!"
IsNotAuthenticated(q) ==
  \/ q.op \in RestMutations /\ q.res.status = 401
  \/ q.op \notin RestMutations /\ q.res.message = "Not authenticated!"
\* The REST routes' is-auth answered: the controller never ran.
ControllerRan(q) == ~(q.op \in RestMutations /\ q.res.status = 401)

\* C1 as claimed: an update or delete request on an existing post by anyone
\* but its creator, no identity included, whose input was valid and whose
\* store calls all went through, is answered Forbidden.
C1_OthersAreForbidden ==
  \A r \in Reqs :
    (/\ Done(r)
     /\ req[r].op \in UpdateOrDelete
     /\ ControllerRan(req[r])
     /\ req[r].res.status # 422
     /\ StoreOk(req[r])
     /\ HasPost(req[r].postId)
     /\ posts[req[r].postId].creator # req[r].userId)
    => IsForbidden(req[r])

\* C1, amended: no step of an update or delete request changes or removes a
\* post whose creator is not the request's identity; such a request that
\* finds the post is answered Forbidden; a resolver called with no identity
\* answers "Not authenticated!" instead, before it looks the post up.
C1_OnlyCreatorChangesPost ==
  [][\A r \in Reqs :
       (Acts(r) /\ req'[r].op \in UpdateOrDelete) =>
         /\ \A p \in DOMAIN posts :
              posts[p].creator # req'[r].userId =>
                HasPost(p)' /\ posts'[p] = posts[p]
         /\ (/\ req[r].pc \in FindSteps
             /\ StoreOk(req'[r])
             /\ HasPost(req[r].postId)
             /\ posts[req[r].postId].creator # req[r].userId)
            => req'[r].pc = "done" /\ IsForbidden(req'[r])
         /\ (Arrives(r) /\ req'[r].op \in GqlMutations /\ ~req'[r].isAuth)
            => /\ req'[r].pc = "done"
               /\ IsNotAuthenticated(req'[r])
               /\ req'[r].log = <<>>]_vars

\* C1's case: a request by another user on an existing post was refused.
C1_Witness ==
  \E r \in Reqs :
    /\ Done(r)
    /\ req[r].op \in UpdateOrDelete
    /\ req[r].userId \in UserIds
    /\ HasPost(req[r].postId)
    /\ posts[req[r].postId].creator # req[r].userId
    /\ IsForbidden(req[r])

\* The header carries a token that verifies at the time of the request.
Verifies(h, now) == h.present /\ h.token /\ h.sig = "good" /\ now < h.exp

\* C2: on every request the gate calls next() once and writes no response;
\* it sets isAuth, with the token payload's userId, exactly when the header
\* carries a token that verifies, and otherwise sets isAuth to false and
\* leaves userId unset.
C2_GateAlwaysContinues ==
  gate.ran =>
    /\ gate.out.nextCalls = 1
    /\ ~gate.out.responded
    /\ gate.out.isAuth <=> Verifies(gate.hdr, gate.now)
    /\ gate.out.isAuth => gate.out.userId = gate.hdr.userId
    /\ ~gate.out.isAuth => gate.out.userId = NoId

\* C2's case: the gate ran on an expired, well-signed token and went on
\* unauthenticated.
C2_Witness ==
  /\ gate.ran
  /\ gate.hdr.token /\ gate.hdr.sig = "good" /\ gate.now >= gate.hdr.exp
  /\ ~gate.out.isAuth
  /\ gate.out.nextCalls = 1

GqlGuarded == {"gql.createPost", "gql.updatePost", "gql.deletePost",
               "gql.getPosts", "gql.getPost", "gql.user", "gql.updateStatus"}

Mutations == RestMutations \cup GqlMutations
CreateOrDelete == {"rest.createPost", "rest.deletePost", "rest2.deletePost",
                   "gql.createPost", "gql.deletePost"}
PostWrites  == {"post.save", "Post.findByIdAndDelete"}
SideEffects == PostWrites \cup {"user.save", "fs.unlink", "emit"}

\* The calls a step of the request adds to its log, and the log before it.
Before(r)   == IF Arrives(r) THEN <<>> ELSE req[r].log
NewCalls(r) == SubSeq(req'[r].log, Len(Before(r)) + 1, Len(req'[r].log))

\* The request failed at authentication, validation, resolution or the
\* ownership check.
FailedCheck(q) ==
  \/ q.op \in RestMutations /\ q.res.status \in {401, 422, 404, 403}
  \/ q.op \in GqlMutations
     /\ q.res.message \in {"Not authenticated!", "Invalid input.",
                           "Invalid User.", "No post found!", "Not authorized!"}

\* C4 as claimed: a create, update or delete request that failed at
\* authentication, validation, resolution or the ownership check has written
\* or removed no Post and no User, scheduled no file deletion and emitted no
\* notification.
C4_FailedChecksHaveNoSideEffect ==
  \A r \in Reqs :
    (Done(r) /\ req[r].op \in Mutations /\ FailedCheck(req[r]))
    => \A i \in 1..Len(req[r].log) : req[r].log[i].call \notin SideEffects

\* C5: in every create and delete operation, a step that writes the User
\* comes after the write of that request's Post, and that write succeeded.
C5_PostWrittenBeforeUser ==
  [][\A r \in Reqs :
       (/\ Acts(r)
        /\ req'[r].op \in CreateOrDelete
        /\ \/ users' # users
           \/ \E i \in 1..Len(NewCalls(r)) : NewCalls(r)[i].call = "user.save")
       => /\ \E j \in 1..Len(Before(r)) :
               /\ Before(r)[j].call \in PostWrites
               /\ Before(r)[j].id = req'[r].postId
               /\ Before(r)[j].ok
          /\ \A j \in 1..Len(Before(r)) : Before(r)[j].ok]_vars

\* C5's case: a delete has removed the Post and then pulled its id from the
\* User.
C5_Witness ==
  \E r \in Reqs :
    /\ Done(r)
    /\ req[r].op = "gql.deletePost"
    /\ \E i, j \in 1..Len(req[r].log) :
         /\ i < j
         /\ req[r].log[i].call = "Post.findByIdAndDelete" /\ req[r].log[i].ok
         /\ req[r].log[j].call = "user.save" /\ req[r].log[j].ok

\* C6: every notification in a request's log is a REST mutation's, and
\* before it stand a successful write of the Post and, for create and
\* delete, a successful write of the User, and no call that failed.
C6_EmitOnlyAfterPersistence ==
  \A r \in Reqs :
    \A i \in 1..Len(req[r].log) :
      req[r].log[i].call = "emit" =>
        /\ req[r].op \in RestMutations
        /\ \E j \in 1..(i - 1) :
             req[r].log[j].call \in PostWrites /\ req[r].log[j].ok
        /\ req[r].op \in CreateOrDelete =>
             \E j \in 1..(i - 1) :
               req[r].log[j].call = "user.save" /\ req[r].log[j].ok
        /\ \A j \in 1..(i - 1) : req[r].log[j].ok

\* C6's case: an update was saved and then announced.
C6_Witness ==
  \E r \in Reqs :
    /\ Done(r)
    /\ req[r].op = "rest.updatePost"
    /\ req[r].res.status = 200
    /\ Called(req[r], "emit")

Succeeded(q) == q.res.status \in {200, 201}
Emits(q) == {i \in 1..Len(q.log) : q.log[i].call = "emit"}
ActionOf(op) ==
  CASE op = "rest.createPost" -> "create"
    [] op = "rest.updatePost" -> "update"
    [] OTHER -> "delete"

\* C7 as claimed: a REST create, update or delete that succeeded has emitted
\* one event, of its action and its post; a GraphQL mutation has emitted
\* none.
C7_OneEventPerRestMutation ==
  \A r \in Reqs :
    /\ (Done(r) /\ req[r].op \in RestMutations /\ Succeeded(req[r])) =>
         /\ Cardinality(Emits(req[r])) = 1
         /\ \A i \in Emits(req[r]) :
              /\ req[r].log[i].what = ActionOf(req[r].op)
              /\ req[r].log[i].id = req[r].postId
    /\ req[r].op \in GqlMutations => Emits(req[r]) = {}

DeleteOps   == {"rest.deletePost", "rest2.deletePost", "gql.deletePost"}
DeleteFinds == {"rdp.find", "rdq.find", "gdp.find"}

\* C8 as claimed: a delete by the post's creator that passes the checks
\* schedules the deletion of the post's image file, and when it has
\* completed successfully the post is in the Post collection no more and
\* its id is in the creator's posts no more.
C8_DeleteRemovesPostAndImage ==
  [][\A r \in Reqs :
       (Acts(r) /\ req'[r].op \in DeleteOps) =>
         /\ (/\ req[r].pc \in DeleteFinds
             /\ req'[r].pc # "done"
             /\ HasPost(req[r].postId))
            => \E i \in 1..Len(NewCalls(r)) :
                 /\ NewCalls(r)[i].call = "fs.unlink"
                 /\ NewCalls(r)[i].path =
                      PathJoin(platform, posts[req[r].postId].imageUrl)
         /\ (Answers(r) /\ Succeeded(req'[r])) =>
              /\ req'[r].postId \notin DOMAIN posts'
              /\ \A i \in 1..Len(users'[req'[r].userId].posts) :
                   users'[req'[r].userId].posts[i] # req'[r].postId
              /\ Called(req'[r], "fs.unlink")]_vars

ByIdFinds == {"rup.find", "rdp.find", "rdq.find", "rgo.find",
              "gup.find", "gdp.find", "ggo.find"}
IsNotFound(q) ==
  IF q.op \in {"rest.updatePost", "rest.deletePost", "rest2.deletePost",
               "rest.getPost"}
  THEN q.res.status = 404
  ELSE q.res.message = "No post found!"

\* C9 as claimed: when the lookup of an update, delete or single-post read
\* answers that no post has the id, the request fails with NotFound (404 on
\* the REST surface) and nothing is written.
C9_MissingPostIsNotFound ==
  [][\A r \in Reqs :
       (/\ Acts(r)
        /\ req[r].pc \in ByIdFinds
        /\ ~HasPost(req[r].postId)
        /\ StoreOk(req'[r]))
       => /\ req'[r].pc = "done"
          /\ IsNotFound(req'[r])
          /\ posts' = posts
          /\ users' = users]_vars

\* All posts, newest first.
IsDescending(o) ==
  /\ Len(o) = Cardinality(DOMAIN posts)
  /\ \A p \in DOMAIN posts : \E i \in 1..Len(o) : o[i] = p
  /\ \A i, j \in 1..Len(o) :
       i < j => posts[o[i]].createdAt >= posts[o[j]].createdAt

\* C10: a list read of page p >= 1 that answers returns the posts at
\* positions (p-1)*2+1 .. p*2 of all posts in descending order of creation,
\* as many of them as there are, and the number of stored posts as total.
C10_PageOfTwoNewestFirst ==
  [][\A r \in Reqs :
       (/\ Acts(r)
        /\ req[r].pc \in {"rgp.find", "ggp.find"}
        /\ req[r].page >= 1
        /\ req'[r].res.status = 200)
       => LET out == req'[r].res.posts
              off == (req[r].page - 1) * 2
              N   == Cardinality(DOMAIN posts)
          IN  /\ PerPage = 2
              /\ Len(out) <= 2
              /\ Len(out) = IF N - off >= 2 THEN 2
                            ELSE IF N - off <= 0 THEN 0 ELSE N - off
              /\ \E o \in [1..N -> DOMAIN posts] :
                   /\ IsDescending(o)
                   /\ \A i \in 1..Len(out) : out[i] = o[off + i]
              /\ req'[r].res.total = N]_vars

\* C10's case: the second page of three posts, one post of a total of three.
C10_Witness ==
  \E r \in Reqs :
    /\ Done(r)
    /\ req[r].op \in {"rest.getPosts", "gql.getPosts"}
    /\ req[r].res.status = 200
    /\ Len(req[r].res.posts) = 1
    /\ req[r].res.total = 3
    /\ Cardinality(DOMAIN posts) = 3

CreateOrUpdate == {"rest.createPost", "rest.updatePost",
                   "gql.createPost", "gql.updatePost"}
\* The request was refused for its title or content.
IsValidationFailed(q) ==
  /\ q.res.status = 422
  /\ q.res.message \in {"Validation failed, entered data is incorrect.",
                        "Invalid input."}

\* C11 as claimed: a create or update refused for its title or content is
\* answered 422 with the list of the rules the input violates, one entry
\* per rule, and has written no Post.
C11_ValidationFailedListsViolations ==
  \A r \in Reqs :
    (Done(r) /\ req[r].op \in CreateOrUpdate /\ IsValidationFailed(req[r]))
    => /\ req[r].res.data # NoData
       /\ Len(req[r].res.data) >= 1
       /\ \A i, j \in 1..Len(req[r].res.data) :
            i # j => req[r].res.data[i] # req[r].res.data[j]
       /\ ~Called(req[r], "post.save")

UpdateSaves == {"rup.save", "gup.save"}

\* C12 as claimed: an update whose save changes the post's image path has
\* scheduled the deletion of the file the post had, and an update whose save
\* keeps the path has scheduled none.
C12_ReplacedImageIsDeleted ==
  [][\A r \in Reqs :
       (/\ Acts(r)
        /\ req[r].pc \in UpdateSaves
        /\ Succeeded(req'[r])
        /\ HasPost(req[r].postId))
       => LET old == posts[req[r].postId].imageUrl
              new == posts'[req[r].postId].imageUrl
              unlinks == {i \in 1..Len(req'[r].log) :
                            req'[r].log[i].call = "fs.unlink"}
          IN  IF new # old
              THEN \E i \in unlinks :
                     req'[r].log[i].path = PathJoin(platform, old)
              ELSE unlinks = {}]_vars

\* C16 as claimed: an authenticated update whose title or content is invalid
\* is refused with ValidationFailed when its lookup answers, whether the
\* post exists or not and whoever created it.
C16_ValidationBeforeResolution ==
  [][\A r \in Reqs :
       (/\ Acts(r)
        /\ req[r].pc \in {"rup.find", "gup.find"}
        /\ Len(GqlPostErrors(req[r].title, req[r].content)) > 0
        /\ StoreOk(req'[r]))
       => /\ req'[r].pc = "done"
          /\ IsValidationFailed(req'[r])]_vars

\* C14 as claimed: a REST create, update or delete all of whose store calls
\* went through answers with success, whatever became of its notification.
C14_EmitFailureIsNotSurfaced ==
  \A r \in Reqs :
    (/\ Done(r)
     /\ req[r].op \in RestMutations
     /\ Called(req[r], "emit")
     /\ \A i \in 1..Len(req[r].log) :
          req[r].log[i].call # "emit" => req[r].log[i].ok)
    => Succeeded(req[r])

\* The existing posts whose image is the file at the path.
PostsOfFile(path) ==
  {p \in DOMAIN posts : PathJoin(platform, posts[p].imageUrl) = path}

\* C18 as claimed: no step of a request schedules the deletion of a file that
\* is the image of existing posts none of which the request's identity
\* created.
C18_OnlyCreatorDeletesImage ==
  [][\A r \in Reqs :
       Acts(r) =>
         \A i \in 1..Len(NewCalls(r)) :
           (/\ NewCalls(r)[i].call = "fs.unlink"
            /\ PostsOfFile(NewCalls(r)[i].path) # {})
           => \E p \in PostsOfFile(NewCalls(r)[i].path) :
                posts[p].creator = req'[r].userId]_vars

\* C15 as claimed: every Post a create operation writes has as creator the
\* id of a User that is in the store when the Post is written.
C15_CreatorExistsAtCreation ==
  [][\A p \in (DOMAIN posts') \ (DOMAIN posts) :
       posts'[p].creator \in DOMAIN users]_vars

\* C13 as claimed: no two stored Users have the same email.
C13_EmailsAreUnique ==
  \A u, v \in DOMAIN users :
    u # v => users[u].email # users[v].email

\* The ids in a User's posts.
OwnedIds(u) == {users[u].posts[i] : i \in 1..Len(users[u].posts)}

\* C17 as claimed: when every create and delete request has answered and
\* none of their calls failed, each User's posts hold exactly the ids of the
\* stored Posts that User created.
C17_UserPostsMatchStore ==
  (\A r \in DOMAIN req : req[r].pc = "done" /\ StoreOk(req[r]))
  => \A u \in DOMAIN users :
       OwnedIds(u) = {p \in DOMAIN posts : posts[p].creator = u}

=============================================================================
